---- MODULE Spec2Model ----
(***************************************************************************)
(* find_similar_pictures.py: fingerprinting of image files, the weighted   *)
(* distance between two fingerprints, the greedy clustering of a folder    *)
(* scan (find_similar_images, driven by MainWindow.start_scan), and the    *)
(* review window (ImageViewer) with its pages, check boxes and deletion.   *)
(*                                                                         *)
(* Two specifications share the module:                                    *)
(*   Spec       - one run of find_similar_images under start_scan          *)
(*   SpecReview - one ImageViewer session over a clustering result         *)
(***************************************************************************)
EXTENDS Integers, Sequences, FiniteSets, TLC

\* ------------------------------------------------------------------ bounds

\* Number of hex digits of one hash string (16 in the program: 64 bits).
HexLen == 4
\* Largest number of image files the folder scan enumerates.
MaxFiles == 4
\* Thresholds 1..MaxThreshold are tried (the slider offers 1..10).
MaxThreshold == 2
\* Largest number of similarity groups a review session starts with.
MaxGroups == 6
\* Largest number of check box clicks of one review session.
MaxToggles == 1
\* Largest number of members of a group a review session starts with.
MaxGroupSize == 3
\* Scroll bar values 0..MaxScroll are tried.
MaxScroll == 1

\* ------------------------------------------------------------- hash values

\* A hash as imagehash computes it: a sequence of 4*HexLen bits.
\* Thermo(k): the first k hex digits are 3 (bits 0011), the rest 0.
Thermo(k) == [j \in 1..(4 * HexLen) |-> IF j <= 4 * k /\ ((j - 1) % 4) >= 2 THEN 1 ELSE 0]

\* The image behind a readable file, given by the hashes imagehash derives
\* from it (phash, dhash, average_hash of the four rotations and two flips).
Image(p, d, r, fh, fv) ==
    [phash |-> Thermo(p), dhash |-> Thermo(d),
     rotations |-> <<Thermo(r[1]), Thermo(r[2]), Thermo(r[3]), Thermo(r[4])>>,
     flipped_h |-> Thermo(fh), flipped_v |-> Thermo(fv)]

\* A file PIL cannot open yields no hashes at all.
Unreadable ==
    [phash |-> <<>>, dhash |-> <<>>, rotations |-> <<>>, flipped_h |-> <<>>, flipped_v |-> <<>>]

\* Python's None, the result of calculate_image_hash for such a file.
None ==
    [phash |-> <<>>, dhash |-> <<>>, rotations |-> <<>>, flipped_h |-> <<>>, flipped_v |-> <<>>]

\* The images a scanned file may hold.
ImagePool ==
    { Image(0, 0, <<0, 0, 0, 0>>, 0, 0),
      Image(2, 2, <<2, 2, 2, 2>>, 2, 2),
      Image(3, 3, <<3, 3, 3, 3>>, 3, 3),
      Image(0, 1, <<4, 3, 3, 3>>, 1, 2) }

FileContents == ImagePool \cup {Unreadable}

Min2(a, b) == IF a <= b THEN a ELSE b

SetMin(S) == CHOOSE x \in S : \A y \in S : x <= y

\* str(imagehash.ImageHash): the bits written as hex digits, 4 bits a digit.
HexDigit(h, j) == 8 * h[4 * j - 3] + 4 * h[4 * j - 2] + 2 * h[4 * j - 1] + h[4 * j]

Str(h) == [j \in 1..(Len(h) \div 4) |-> HexDigit(h, j)]

\* calculate_image_hash: None for a file PIL cannot open, else the hex strings.
calculate_image_hash(image) ==
    IF image = Unreadable
    THEN None
    ELSE [phash |-> Str(image.phash),
          dhash |-> Str(image.dhash),
          rotations |-> [k \in 1..4 |-> Str(image.rotations[k])],
          flipped_h |-> Str(image.flipped_h),
          flipped_v |-> Str(image.flipped_v)]

\* sum(c1 != c2 for c1, c2 in zip(s1, s2)): positions of the two strings
\* that hold different characters.
CharDistance(s1, s2) ==
    Cardinality({j \in 1..Min2(Len(s1), Len(s2)) : s1[j] # s2[j]})

\* The component tuples (phash, dhash, rotation, flip distance), each within
\* 0..5, whose weighted sum is a whole number n in exact arithmetic and which
\* 0.4*a + 0.3*b + 0.2*c + 0.1*d evaluates, in IEEE-754 doubles and in the
\* order written, to a value above n.
RoundsAbove ==
    { <<0, 1, 3, 1>>, <<3, 0, 3, 2>>, <<3, 1, 2, 1>>, <<3, 2, 0, 2>>,
      <<3, 2, 1, 0>>, <<3, 2, 4, 4>>, <<3, 2, 5, 2>>, <<3, 3, 4, 1>>,
      <<3, 4, 1, 4>>, <<3, 4, 2, 2>>, <<3, 4, 3, 0>>, <<3, 5, 1, 1>>,
      <<4, 1, 5, 1>>, <<4, 2, 3, 2>>, <<5, 2, 1, 2>> }

\* The four distances calculate_similarity combines.
Components(hash1, hash2) ==
    LET phash_distance == CharDistance(hash1.phash, hash2.phash)
        dhash_distance == CharDistance(hash1.dhash, hash2.dhash)
        rotation_distances ==
            {CharDistance(hash1.rotations[a], hash2.rotations[b]) : a \in 1..4, b \in 1..4}
        min_rotation_distance == SetMin(rotation_distances)
        flip_h_distance == CharDistance(hash1.flipped_h, hash2.flipped_h)
        flip_v_distance == CharDistance(hash1.flipped_v, hash2.flipped_v)
        min_flip_distance == Min2(flip_h_distance, flip_v_distance)
    IN  <<phash_distance, dhash_distance, min_rotation_distance, min_flip_distance>>

\* calculate_similarity: the weighted distance, a double. It is kept as its
\* exact value in tenths together with whether the double lies above it.
calculate_similarity(hash1, hash2) ==
    LET c == Components(hash1, hash2)
    IN  [tenths |-> 4 * c[1] + 3 * c[2] + 2 * c[3] + 1 * c[4],
         above |-> c \in RoundsAbove]

\* Variant of WithinThreshold with the comparison turned round (>=).
WithinThresholdReversed(similarity, t) == similarity.tenths >= 10 * t

\* similarity <= threshold, for a whole-number threshold.
WithinThreshold(similarity, t) ==
    \/ similarity.tenths < 10 * t
    \/ similarity.tenths = 10 * t /\ ~similarity.above

\* ------------------------------------------------------------------ state

VARIABLES
    image_files,     \* the files rglob found, in order: the image each holds
    threshold,       \* threshold_slider.value()
    pc,              \* "scan", "cluster", "done" (find_similar_images); "review" (ImageViewer open)
    i,               \* index of the next file of the hashing loop (1-based)
    canceled,        \* progress.wasCanceled()
    progress_value,  \* the value last given to progress.setValue
    hash_dict,       \* ordered dict: sequence of <<path, fingerprint>>
    k,               \* position of the outer clustering loop in hash_dict
    processed,       \* the set processed
    similar_groups,  \* ordered dict: sequence of <<key, group>>
    compared,        \* paths that were an argument of calculate_similarity
    \* ImageViewer (self.similar_groups is similar_groups above, as a list)
    image_widgets,   \* sequence of <<"image", path>> and <<"group", group_idx>>
    checkboxes,      \* sequence of [path, checked]
    loaded_groups,   \* set of group indices (0-based, as in the code)
    current_page,
    total_pages,
    is_loading,
    last_scroll_value,
    selected_count_label,  \* the number the label shows
    closed,          \* self.close() was called
    unloadable,      \* paths whose thumbnail cannot be built (Image.open raises)
    toggles,         \* check box clicks so far
    remove_calls,    \* paths os.remove was called with
    deleted,         \* a delete was confirmed
    pre_groups,      \* similar_groups when the delete was confirmed
    pre_selected     \* the selection (EffectiveSelected) at that moment

scanVars == <<image_files, threshold, pc, i, canceled, progress_value, hash_dict,
              k, processed, compared>>

viewVars == <<image_widgets, checkboxes, loaded_groups, current_page, total_pages,
              is_loading, last_scroll_value, selected_count_label, closed>>

envVars == <<unloadable, toggles, remove_calls, deleted, pre_groups, pre_selected>>

vars == <<scanVars, similar_groups, viewVars, envVars>>

\* A file's path is its position in image_files.
total_files == Len(image_files)

\* ------------------------------------------------------- ordered dict helpers

Keys(d) == {d[n][1] : n \in 1..Len(d)}

\* d[key] = value: a present key keeps its place and takes the new value.
DictSet(d, key, value) ==
    IF key \in Keys(d)
    THEN [n \in 1..Len(d) |-> IF d[n][1] = key THEN <<key, value>> ELSE d[n]]
    ELSE Append(d, <<key, value>>)

\* ------------------------------------------------------------- the scan loop

\* Variant of StoreHash without the test of img_hash.
StoreHashUnchecked(hd, path, img_hash) == DictSet(hd, path, img_hash)

\* if img_hash: hash_dict[str(image_path)] = img_hash
StoreHash(hd, path, img_hash) ==
    IF img_hash # None THEN DictSet(hd, path, img_hash) ELSE hd

\* One iteration of the hashing loop: the progress callback of start_scan
\* (which returns at once when the dialog was canceled, and otherwise sets the
\* value and lets Qt process events, among them a click on Cancel), then the
\* fingerprint of the file.
ScanFile(click) ==
    /\ pc = "scan"
    /\ i <= total_files
    /\ IF canceled
       THEN UNCHANGED <<canceled, progress_value>>
       ELSE /\ progress_value' = ((i - 1) * 100) \div total_files  \* int((current / total) * 100)
            /\ canceled' = click
    /\ hash_dict' = StoreHash(hash_dict, i, calculate_image_hash(image_files[i]))
    /\ i' = i + 1
    /\ UNCHANGED <<image_files, threshold, pc, k, processed, similar_groups, compared>>
    /\ UNCHANGED <<viewVars, envVars>>

\* The hashing loop is over: processed = set(), the outer loop starts.
ScanDone ==
    /\ pc = "scan"
    /\ i > total_files
    /\ pc' = "cluster"
    /\ k' = 1
    /\ processed' = {}
    /\ UNCHANGED <<image_files, threshold, i, canceled, progress_value, hash_dict,
                   similar_groups, compared>>
    /\ UNCHANGED <<viewVars, envVars>>

\* ------------------------------------------------------------- clustering

\* Variant of Reportable that lets a group of one through (len(group) > 0).
ReportableSingleton(group) == Len(group) > 0

\* if len(group) > 1
Reportable(group) == Len(group) > 1

\* Variant of Candidate without the test of processed.
CandidateAssigned(path1, path2, assigned) == path1 # path2

\* if path1 != path2 and path2 not in processed
Candidate(path1, path2, assigned) == path1 # path2 /\ path2 \notin assigned

\* The inner loop over hash_dict.items() for the group started by hd[n1],
\* from position n2 on. st = [group, processed, compared].
RECURSIVE InnerLoop(_, _, _, _, _)
InnerLoop(hd, t, n1, n2, st) ==
    IF n2 > Len(hd)
    THEN st
    ELSE LET path1 == hd[n1][1]
             hash1 == hd[n1][2]
             path2 == hd[n2][1]
             hash2 == hd[n2][2]
         IN  IF Candidate(path1, path2, st.processed)
             THEN LET similarity == calculate_similarity(hash1, hash2)
                      seen == st.compared \cup {path1, path2}
                  IN  IF WithinThreshold(similarity, t)
                      THEN InnerLoop(hd, t, n1, n2 + 1,
                                     [group |-> Append(st.group, path2),
                                      processed |-> st.processed \cup {path2},
                                      compared |-> seen])
                      ELSE InnerLoop(hd, t, n1, n2 + 1, [st EXCEPT !.compared = seen])
             ELSE InnerLoop(hd, t, n1, n2 + 1, st)

\* One iteration of the outer loop, at position n1 of hash_dict.
\* cs = [processed, similar_groups, compared].
OuterStep(hd, t, n1, cs) ==
    LET path1 == hd[n1][1]
        hash1 == hd[n1][2]
    IN  IF path1 \in cs.processed
        THEN cs
        ELSE LET st == InnerLoop(hd, t, n1, 1,
                                 [group |-> <<path1>>, processed |-> cs.processed,
                                  compared |-> cs.compared])
             IN  IF Reportable(st.group)
                 THEN [processed |-> st.processed \cup {path1},
                       similar_groups |-> DictSet(cs.similar_groups, hash1.phash, st.group),
                       compared |-> st.compared]
                 ELSE [processed |-> st.processed,
                       similar_groups |-> cs.similar_groups,
                       compared |-> st.compared]

ClusterStep ==
    /\ pc = "cluster"
    /\ k <= Len(hash_dict)
    /\ LET cs == OuterStep(hash_dict, threshold, k,
                           [processed |-> processed, similar_groups |-> similar_groups,
                            compared |-> compared])
       IN  /\ processed' = cs.processed
           /\ similar_groups' = cs.similar_groups
           /\ compared' = cs.compared
    /\ k' = k + 1
    /\ UNCHANGED <<image_files, threshold, pc, i, canceled, progress_value, hash_dict>>
    /\ UNCHANGED <<viewVars, envVars>>

\* return similar_groups, and start_scan's progress.setValue(100).
Return ==
    /\ pc = "cluster"
    /\ k > Len(hash_dict)
    /\ pc' = "done"
    /\ progress_value' = 100
    /\ UNCHANGED <<image_files, threshold, i, canceled, hash_dict, k, processed,
                   similar_groups, compared>>
    /\ UNCHANGED <<viewVars, envVars>>

\* The whole clustering of hd at threshold t (the outer loop run to its end).
RECURSIVE ClusterFrom(_, _, _, _)
ClusterFrom(hd, t, n1, cs) ==
    IF n1 > Len(hd) THEN cs ELSE ClusterFrom(hd, t, n1 + 1, OuterStep(hd, t, n1, cs))

Cluster(hd, t) ==
    ClusterFrom(hd, t, 1, [processed |-> {}, similar_groups |-> <<>>, compared |-> {}])

\* No ImageViewer exists while find_similar_images runs.
NoViewer ==
    /\ image_widgets = <<>>
    /\ checkboxes = <<>>
    /\ loaded_groups = {}
    /\ current_page = 0
    /\ total_pages = 0
    /\ is_loading = FALSE
    /\ last_scroll_value = 0
    /\ selected_count_label = 0
    /\ closed = FALSE
    /\ unloadable = {}
    /\ toggles = 0
    /\ remove_calls = {}
    /\ deleted = FALSE
    /\ pre_groups = <<>>
    /\ pre_selected = {}

\* --------------------------------------------------------------- Spec

FileLists == UNION {[1..n -> FileContents] : n \in 0..MaxFiles}

Init ==
    /\ image_files \in FileLists
    /\ threshold \in 1..MaxThreshold
    /\ pc = "scan"
    /\ i = 1
    /\ canceled = FALSE
    /\ progress_value = 0
    /\ hash_dict = <<>>
    /\ k = 1
    /\ processed = {}
    /\ similar_groups = <<>>
    /\ compared = {}
    /\ NoViewer

Next ==
    \/ \E click \in BOOLEAN : ScanFile(click)
    \/ ScanDone
    \/ ClusterStep
    \/ Return

Spec == Init /\ [][Next]_vars

\* ------------------------------------------------------------- ImageViewer

groups_per_page == 5

\* (len(self.similar_groups) + self.groups_per_page - 1) // self.groups_per_page
PageCount(groups) == (Len(groups) + groups_per_page - 1) \div groups_per_page

\* Variant of DefaultChecked that checks the first member too (index >= 0).
DefaultCheckedAll(index) == index >= 0

\* if index > 0: checkbox.setChecked(True)
DefaultChecked(index) == index > 0

\* create_image_container: the check box it appends to self.checkboxes.
create_image_container(img_path, index) ==
    [path |-> img_path, checked |-> DefaultChecked(index)]

\* view = [image_widgets, checkboxes, loaded_groups]
EmptyView == [image_widgets |-> <<>>, checkboxes |-> <<>>, loaded_groups |-> {}]

\* for i, img_path in enumerate(group): a container and its check box, unless
\* building the thumbnail raises (bad), which is printed and skipped.
RECURSIVE AddMembers(_, _, _, _)
AddMembers(group, index, view, bad) ==
    IF index >= Len(group)
    THEN view
    ELSE LET img_path == group[index + 1]
         IN  IF img_path \in bad
             THEN AddMembers(group, index + 1, view, bad)
             ELSE AddMembers(group, index + 1,
                    [view EXCEPT
                       !.checkboxes = Append(@, create_image_container(img_path, index)),
                       !.image_widgets = Append(@, <<"image", img_path>>)],
                    bad)

\* Variant of NotLoaded that never consults loaded_groups.
NotLoadedIgnored(group_idx, loaded) == TRUE

\* if group_idx not in self.loaded_groups
NotLoaded(group_idx, loaded) == group_idx \notin loaded

\* The body run for a group that is loaded now.
LoadGroup(groups, group_idx, view, bad) ==
    LET group == groups[group_idx + 1][2]
        marked == [view EXCEPT !.loaded_groups = @ \cup {group_idx}]
        filled == AddMembers(group, 0, marked, bad)
    IN  [filled EXCEPT !.image_widgets = Append(@, <<"group", group_idx>>)]

RECURSIVE AppendGroups(_, _, _, _, _)
AppendGroups(groups, group_idx, end_idx, view, bad) ==
    IF group_idx >= end_idx
    THEN view
    ELSE IF NotLoaded(group_idx, view.loaded_groups)
         THEN AppendGroups(groups, group_idx + 1, end_idx,
                           LoadGroup(groups, group_idx, view, bad), bad)
         ELSE AppendGroups(groups, group_idx + 1, end_idx, view, bad)

append_next_page(groups, page, view, bad) ==
    LET start_idx == page * groups_per_page
        end_idx == Min2(start_idx + groups_per_page, Len(groups))
    IN  AppendGroups(groups, start_idx, end_idx, view, bad)

RECURSIVE UnloadedCount(_, _, _)
UnloadedCount(groups, idx, loaded) ==
    IF idx >= Len(groups)
    THEN 0
    ELSE (IF idx \notin loaded THEN Len(groups[idx + 1][2]) - 1 ELSE 0)
         + UnloadedCount(groups, idx + 1, loaded)

\* update_selected_count: the number written to the label.
update_selected_count(cbs, page, groups, loaded) ==
    LET loaded_count == Cardinality({n \in 1..Len(cbs) : cbs[n].checked})
        start_idx == (page + 1) * groups_per_page
    IN  loaded_count + UnloadedCount(groups, start_idx, loaded)

\* load_current_page: everything cleared, the current page appended, the
\* label refreshed.
load_current_page(groups, page, bad) ==
    LET view == append_next_page(groups, page, EmptyView, bad)
    IN  [view |-> view,
         label |-> update_selected_count(view.checkboxes, page, groups, view.loaded_groups)]

CurrentView ==
    [image_widgets |-> image_widgets, checkboxes |-> checkboxes,
     loaded_groups |-> loaded_groups]

\* on_scroll(value); near_bottom is value >= scrollbar.maximum() - 50.
OnScroll(value, near_bottom) ==
    /\ pc = "review"
    /\ ~closed
    /\ IF is_loading
       THEN UNCHANGED viewVars
       ELSE IF value > last_scroll_value /\ near_bottom /\ current_page < total_pages - 1
            THEN LET view == append_next_page(similar_groups, current_page + 1,
                                              CurrentView, unloadable)
                 IN  /\ is_loading' = TRUE
                     /\ current_page' = current_page + 1
                     /\ image_widgets' = view.image_widgets
                     /\ checkboxes' = view.checkboxes
                     /\ loaded_groups' = view.loaded_groups
                     /\ last_scroll_value' = value
                     /\ UNCHANGED <<total_pages, selected_count_label, closed>>
            ELSE /\ last_scroll_value' = value
                 /\ UNCHANGED <<image_widgets, checkboxes, loaded_groups, current_page,
                                total_pages, is_loading, selected_count_label, closed>>
    /\ UNCHANGED <<scanVars, similar_groups, envVars>>

\* reset_loading_state, run by the timer on_scroll started.
ResetLoadingState ==
    /\ pc = "review"
    /\ ~closed
    /\ is_loading
    /\ is_loading' = FALSE
    /\ UNCHANGED <<image_widgets, checkboxes, loaded_groups, current_page, total_pages,
                   last_scroll_value, selected_count_label, closed>>
    /\ UNCHANGED <<scanVars, similar_groups, envVars>>

\* The operator clicks check box n; stateChanged runs update_selected_count.
Toggle(n) ==
    /\ pc = "review"
    /\ ~closed
    /\ toggles < MaxToggles
    /\ n \in 1..Len(checkboxes)
    /\ checkboxes' = [checkboxes EXCEPT ![n].checked = ~@]
    /\ selected_count_label' =
           update_selected_count(checkboxes', current_page, similar_groups, loaded_groups)
    /\ toggles' = toggles + 1
    /\ UNCHANGED <<image_widgets, loaded_groups, current_page, total_pages, is_loading,
                   last_scroll_value, closed>>
    /\ UNCHANGED <<scanVars, similar_groups, unloadable, remove_calls, deleted,
                   pre_groups, pre_selected>>

\* to_delete: group[1:] of every group, in order.
RECURSIVE ToDelete(_, _)
ToDelete(groups, n) ==
    IF n > Len(groups) THEN <<>> ELSE Tail(groups[n][2]) \o ToDelete(groups, n + 1)

\* updated_groups: (hash_key, [group[0]]) for every non-empty group.
RECURSIVE UpdatedGroups(_, _)
UpdatedGroups(groups, n) ==
    IF n > Len(groups)
    THEN <<>>
    ELSE (IF Len(groups[n][2]) > 0
          THEN << <<groups[n][1], <<groups[n][2][1]>> >> >>
          ELSE <<>>)
         \o UpdatedGroups(groups, n + 1)

\* [(k, g) for k, g in updated_groups if len(g) > 1]
RECURSIVE KeepReportable(_, _)
KeepReportable(groups, n) ==
    IF n > Len(groups)
    THEN <<>>
    ELSE (IF Len(groups[n][2]) > 1 THEN <<groups[n]>> ELSE <<>>)
         \o KeepReportable(groups, n + 1)

Range(seq) == {seq[n] : n \in 1..Len(seq)}

CheckedPaths(cbs) == {cbs[n].path : n \in {m \in 1..Len(cbs) : cbs[m].checked}}

BoxPaths(cbs) == {cbs[n].path : n \in 1..Len(cbs)}

\* The selection a delete would act on: the checked boxes, and by the default
\* policy every non-first member that has no check box (yet).
EffectiveSelected(groups, cbs) ==
    CheckedPaths(cbs) \cup (Range(ToDelete(groups, 1)) \ BoxPaths(cbs))

\* delete_all_selected; reply is the answer to the confirmation question.
\* Whether os.remove succeeds or raises changes only what is printed.
DeleteAllSelected(reply) ==
    /\ pc = "review"
    /\ ~closed
    /\ LET to_delete == ToDelete(similar_groups, 1)
       IN  IF to_delete = <<>> \/ ~reply
           THEN UNCHANGED <<similar_groups, viewVars, envVars>>
           ELSE LET remaining == KeepReportable(UpdatedGroups(similar_groups, 1), 1)
                IN  /\ remove_calls' = remove_calls \cup Range(to_delete)
                    /\ deleted' = TRUE
                    /\ pre_groups' = similar_groups
                    /\ pre_selected' = EffectiveSelected(similar_groups, checkboxes)
                    /\ similar_groups' = remaining
                    /\ IF remaining = <<>>
                       THEN /\ closed' = TRUE
                            /\ UNCHANGED <<image_widgets, checkboxes, loaded_groups,
                                           current_page, total_pages, is_loading,
                                           last_scroll_value, selected_count_label>>
                       ELSE LET loaded == load_current_page(remaining, 0, unloadable)
                            IN  /\ total_pages' = PageCount(remaining)
                                /\ current_page' = 0
                                /\ image_widgets' = loaded.view.image_widgets
                                /\ checkboxes' = loaded.view.checkboxes
                                /\ loaded_groups' = loaded.view.loaded_groups
                                /\ selected_count_label' = loaded.label
                                /\ UNCHANGED <<is_loading, last_scroll_value, closed>>
                    /\ UNCHANGED <<unloadable, toggles>>
    /\ UNCHANGED scanVars

\* ----------------------------------------------------------- SpecReview

GroupSizes == 2..MaxGroupSize

ScrollValues == 0..MaxScroll

\* groups of the given sizes over the paths 1, 2, ...; group n has key n.
RECURSIVE GroupsOfSizes(_, _, _)
GroupsOfSizes(sizes, n, first) ==
    IF n > Len(sizes)
    THEN <<>>
    ELSE << <<n, [m \in 1..sizes[n] |-> first + m - 1]>> >>
         \o GroupsOfSizes(sizes, n + 1, first + sizes[n])

\* The clustering results a session is opened on: 1..MaxGroups groups with
\* distinct keys and disjoint members; the first and the last group have any
\* size of GroupSizes, the groups between them two members.
ReviewInputs ==
    { GroupsOfSizes([n \in 1..count |-> IF n = 1 THEN a ELSE IF n = count THEN b ELSE 2],
                    1, 1) :
        count \in 1..MaxGroups, a \in GroupSizes, b \in GroupSizes }

AllPaths(groups) == UNION {Range(groups[n][2]) : n \in 1..Len(groups)}

\* ImageViewer.__init__ has run on a clustering result: page 0 is loaded.
InitReview ==
    /\ image_files = <<>>
    /\ threshold = 1
    /\ pc = "review"
    /\ i = 1
    /\ canceled = FALSE
    /\ progress_value = 100
    /\ hash_dict = <<>>
    /\ k = 1
    /\ processed = {}
    /\ compared = {}
    /\ similar_groups \in ReviewInputs
    /\ unloadable \in {{}} \cup {{p} : p \in AllPaths(similar_groups)}
    /\ current_page = 0
    /\ total_pages = PageCount(similar_groups)
    /\ is_loading = FALSE
    /\ last_scroll_value = 0
    /\ LET loaded == load_current_page(similar_groups, 0, unloadable)
       IN  /\ image_widgets = loaded.view.image_widgets
           /\ checkboxes = loaded.view.checkboxes
           /\ loaded_groups = loaded.view.loaded_groups
           /\ selected_count_label = loaded.label
    /\ closed = FALSE
    /\ toggles = 0
    /\ remove_calls = {}
    /\ deleted = FALSE
    /\ pre_groups = <<>>
    /\ pre_selected = {}

NextReview ==
    \/ \E value \in ScrollValues, near_bottom \in BOOLEAN : OnScroll(value, near_bottom)
    \/ ResetLoadingState
    \/ \E n \in 1..Len(checkboxes) : Toggle(n)
    \/ \E reply \in BOOLEAN : DeleteAllSelected(reply)

SpecReview == InitReview /\ [][NextReview]_vars

\* ================================================================ claims

HashOf(hd, p) == hd[CHOOSE n \in 1..Len(hd) : hd[n][1] = p][2]

PositionOf(hd, p) == CHOOSE n \in 1..Len(hd) : hd[n][1] = p

\* Index (0-based) of path p within its group.
MemberIndex(groups, p) ==
    LET g == CHOOSE n \in 1..Len(groups) : p \in Range(groups[n][2])
    IN  (CHOOSE m \in 1..Len(groups[g][2]) : groups[g][2][m] = p) - 1

IsRepresentative(groups, p) == \E n \in 1..Len(groups) : groups[n][2][1] = p

\* ---------------------------------------------------------------- C1
\* C1 (as claimed): the paths a confirmed delete hands to os.remove are
\* exactly the paths selected at that moment.
C1_DeleteActsOnSelection == deleted => remove_calls = pre_selected

\* ---------------------------------------------------------------- C2
\* The groups the claim expects after a delete: every group without the
\* selected paths, kept when two or more members are left.
ExpectedAfterDelete(groups, selected) ==
    KeepReportable(
        [n \in 1..Len(groups) |->
            <<groups[n][1], SelectSeq(groups[n][2], LAMBDA q : q \notin selected)>>],
        1)

SameGroupPairs(groups) ==
    UNION { {<<a, b>> : a \in Range(groups[n][2]), b \in Range(groups[n][2])} :
            n \in 1..Len(groups) }

ThresholdPairs == {tt \in (1..MaxThreshold) \X (1..MaxThreshold) : tt[1] < tt[2]}

\* C3 (as claimed): for t1 < t2 every pair grouped at t1 is grouped at t2.
C3_ThresholdMonotone ==
    pc = "done" =>
        \A tt \in ThresholdPairs :
            SameGroupPairs(Cluster(hash_dict, tt[1]).similar_groups)
                \subseteq SameGroupPairs(Cluster(hash_dict, tt[2]).similar_groups)

\* Member p of a group started by r at the lower threshold is, at the higher
\* threshold t2, in the group r starts or within t2 of a path before r.
KeptOrClaimedEarlier(hd, t2, r, p, groups2) ==
    \/ \E n \in 1..Len(groups2) : groups2[n][2][1] = r /\ p \in Range(groups2[n][2])
    \/ \E m \in 1..(PositionOf(hd, r) - 1) :
          WithinThreshold(calculate_similarity(hd[m][2], HashOf(hd, p)), t2)

\* C3 (amended): for t1 < t2, when the representative r of a group returned
\* at t1 is also the representative of a group returned at t2, every member of
\* the t1 group is in r's t2 group or lies within t2 of a path that precedes r
\* in iteration order.
C3_MonotoneUnlessClaimedEarlier ==
    pc = "done" =>
        \A tt \in ThresholdPairs :
            LET groups1 == Cluster(hash_dict, tt[1]).similar_groups
                groups2 == Cluster(hash_dict, tt[2]).similar_groups
            IN  \A n \in 1..Len(groups1) :
                    LET r == groups1[n][2][1]
                    IN  IsRepresentative(groups2, r) =>
                            \A p \in Range(groups1[n][2]) :
                                KeptOrClaimedEarlier(hash_dict, tt[2], r, p, groups2)

\* A member of a t1 group whose representative still starts a group at t2 has
\* left that group for the group of an earlier path.
C3_Witness ==
    /\ pc = "done"
    /\ \E tt \in ThresholdPairs :
          LET groups1 == Cluster(hash_dict, tt[1]).similar_groups
              groups2 == Cluster(hash_dict, tt[2]).similar_groups
          IN  \E n \in 1..Len(groups1) :
                  LET r == groups1[n][2][1]
                  IN  /\ IsRepresentative(groups2, r)
                      /\ \E p \in Range(groups1[n][2]) :
                            <<r, p>> \notin SameGroupPairs(groups2)

\* ---------------------------------------------------------------- C4
\* The four bits a hex digit stands for.
BitsOfDigit(d) == <<d \div 8, (d \div 4) % 2, (d \div 2) % 2, d % 2>>

\* Hamming distance of the bit strings two hex strings stand for.
HammingBits(s1, s2) ==
    LET differing(j) == Cardinality({b \in 1..4 : BitsOfDigit(s1[j])[b] # BitsOfDigit(s2[j])[b]})
        sum[j \in 0..Len(s1)] == IF j = 0 THEN 0 ELSE sum[j - 1] + differing(j)
    IN  sum[Len(s1)]

ClaimedTenths(hash1, hash2) ==
    LET rotation_component ==
            SetMin({HammingBits(hash1.rotations[a], hash2.rotations[b]) : a \in 1..4, b \in 1..4})
        flip_component ==
            Min2(HammingBits(hash1.flipped_h, hash2.flipped_h),
                 HammingBits(hash1.flipped_v, hash2.flipped_v))
    IN  4 * HammingBits(hash1.phash, hash2.phash) + 3 * HammingBits(hash1.dhash, hash2.dhash)
        + 2 * rotation_component + 1 * flip_component

\* C4 (as claimed): the distance of two fingerprints is the weighted sum of
\* the bit-level Hamming distances of their hashes.
C4_DistanceIsBitHamming ==
    \A a \in 1..Len(hash_dict), b \in 1..Len(hash_dict) :
        calculate_similarity(hash_dict[a][2], hash_dict[b][2]).tenths
            = ClaimedTenths(hash_dict[a][2], hash_dict[b][2])

\* ---------------------------------------------------------------- C5
Selected(groups, cbs, p) == p \in EffectiveSelected(groups, cbs)

\* Every member of group idx but the first is selected, the first is not.
C5_GroupAtDefault(groups, cbs, idx) ==
    \A m \in 1..Len(groups[idx + 1][2]) :
        Selected(groups, cbs, groups[idx + 1][2][m]) <=> m > 1

C5_IsToggleOf(p) ==
    /\ toggles' = toggles + 1
    /\ \E n \in 1..Len(checkboxes) :
          /\ checkboxes[n].path = p
          /\ checkboxes' = [checkboxes EXCEPT ![n].checked = ~@]

C5_Step ==
    /\ \A idx \in loaded_groups' \ loaded_groups :
          C5_GroupAtDefault(similar_groups', checkboxes', idx)
    /\ \A n \in 1..Len(similar_groups') :
          LET p == similar_groups'[n][2][1]
          IN  (Selected(similar_groups', checkboxes', p)
                 /\ ~Selected(similar_groups, checkboxes, p)) => C5_IsToggleOf(p)

C6_CountUpToDate ==
    (pc = "review" /\ ~closed) =>
        selected_count_label =
            Cardinality(CheckedPaths(checkboxes)) + UnloadedCount(similar_groups, 0, loaded_groups)

\* ---------------------------------------------------------------- C7
C7_NoDuplicates ==
    /\ \A a, b \in 1..Len(image_widgets) : image_widgets[a] = image_widgets[b] => a = b
    /\ \A a, b \in 1..Len(checkboxes) : checkboxes[a].path = checkboxes[b].path => a = b
    /\ loaded_groups = {w[2] : w \in {x \in Range(image_widgets) : x[1] = "group"}}

\* Appending a page that is loaded already changes nothing.
C7_Idempotent ==
    ~closed =>
        \A page \in 0..current_page :
            append_next_page(similar_groups, page, CurrentView, unloadable) = CurrentView

\* A step that advances the page keeps what was loaded as it is.
C7_Step ==
    current_page' > current_page =>
        /\ SubSeq(image_widgets', 1, Len(image_widgets)) = image_widgets
        /\ SubSeq(checkboxes', 1, Len(checkboxes)) = checkboxes
        /\ loaded_groups \subseteq loaded_groups'

\* C7: the loaded view never holds a group or a path twice, appending a page
\* that is loaded already has no effect, and a page advance leaves the groups
\* loaded before untouched.
C7_MaterializedOnce ==
    [](pc = "review" => (C7_NoDuplicates /\ C7_Idempotent)) /\ [][C7_Step]_vars

\* The second page was appended.
C7_Witness == pc = "review" /\ current_page = 1 /\ Cardinality(loaded_groups) > groups_per_page

\* ---------------------------------------------------------------- C8
ReadableFiles == {p \in 1..Len(image_files) : image_files[p] # Unreadable}

\* The fingerprints of the readable files alone, in file order.
RECURSIVE ReadableHashes(_)
ReadableHashes(n) ==
    IF n = 0
    THEN <<>>
    ELSE ReadableHashes(n - 1)
         \o (IF n \in ReadableFiles
             THEN << <<n, calculate_image_hash(image_files[n])>> >>
             ELSE <<>>)

\* C8: an unreadable file gets no fingerprint, is never compared and is in no
\* group; the scan goes on past it, so after the scan every readable file has
\* its fingerprint, and the result is the clustering of the readable files.
C8_UnreadableAbsorbed ==
    pc # "review" =>
        /\ Keys(hash_dict) \subseteq ReadableFiles
        /\ compared \subseteq ReadableFiles
        /\ \A n \in 1..Len(similar_groups) : Range(similar_groups[n][2]) \subseteq ReadableFiles
        /\ pc = "scan" => Keys(hash_dict) = {p \in ReadableFiles : p < i}
        /\ pc # "scan" => hash_dict = ReadableHashes(Len(image_files))
        /\ pc = "done" =>
              similar_groups = Cluster(ReadableHashes(Len(image_files)), threshold).similar_groups

\* An unreadable file lay between two readable files that were grouped.
C8_Witness ==
    /\ pc = "done"
    /\ \E a, b, c \in 1..Len(image_files) :
          /\ a < b /\ b < c
          /\ image_files[b] = Unreadable
          /\ <<a, c>> \in SameGroupPairs(similar_groups)

\* ---------------------------------------------------------------- C9
\* C9 (as claimed): once the progress callback has seen the cancellation, no
\* further file is fingerprinted.
C9_CancelStopsScan == [][(pc = "scan" /\ canceled) => hash_dict' = hash_dict]_vars

\* ---------------------------------------------------------------- C10
\* C10: every group returned has at least 2 members, is keyed by the
\* perceptual hash of its first member, and every other member is within the
\* threshold of the first member.
C10_GroupsWithinThreshold ==
    pc # "review" =>
        \A n \in 1..Len(similar_groups) :
            LET key == similar_groups[n][1]
                group == similar_groups[n][2]
            IN  /\ Len(group) >= 2
                /\ Range(group) \subseteq Keys(hash_dict)
                /\ key = HashOf(hash_dict, group[1]).phash
                /\ \A m \in 2..Len(group) :
                      /\ group[m] # group[1]
                      /\ WithinThreshold(
                             calculate_similarity(HashOf(hash_dict, group[1]),
                                                  HashOf(hash_dict, group[m])),
                             threshold)

\* A group of three was returned, next to a file left without a group.
C10_Witness ==
    /\ pc = "done"
    /\ \E n \in 1..Len(similar_groups) : Len(similar_groups[n][2]) >= 3
    /\ Keys(hash_dict) \ processed # {}

\* ---------------------------------------------------------------- C11
\* The clustering state after the first n iterations of the outer loop.
RECURSIVE ClusterPrefix(_, _, _)
ClusterPrefix(hd, t, n) ==
    IF n = 0
    THEN [processed |-> {}, similar_groups |-> <<>>, compared |-> {}]
    ELSE OuterStep(hd, t, n, ClusterPrefix(hd, t, n - 1))

\* The positions of hash_dict whose outer iteration emitted a group, that is
\* reached len(group) > 1 and marked its own path as processed.
EmittedAt(hd, t) ==
    {n \in 1..Len(hd) :
        /\ hd[n][1] \notin ClusterPrefix(hd, t, n - 1).processed
        /\ hd[n][1] \in ClusterPrefix(hd, t, n).processed}

\* The number of returned groups that hold path p.
GroupsHolding(groups, p) ==
    Cardinality({n \in 1..Len(groups) : p \in Range(groups[n][2])})

\* C11 (as claimed): at the end of clustering every path in processed is a
\* member of exactly one returned group, and as many groups are returned as
\* were emitted with more than one member.
C11_NoAssignedPathLost ==
    pc = "done" =>
        /\ \A p \in processed : GroupsHolding(similar_groups, p) = 1
        /\ Len(similar_groups) = Cardinality(EmittedAt(hash_dict, threshold))

\* ---------------------------------------------------------------- C12
\* A path is its position in image_files, so the input iteration order of
\* two paths is their order as numbers.
C12_InInputOrder(group) ==
    \A a, b \in 1..Len(group) : a < b => group[a] < group[b]

\* An outer iteration assigns its own path or paths that come after it.
C12_Step ==
    (pc = "cluster" /\ k <= Len(hash_dict)) =>
        \A p \in processed' \ processed : p >= hash_dict[k][1]

\* C12: the members of every returned group are in input iteration order,
\* the representative first, and no outer iteration assigns a path that
\* comes before the path it starts from.
C12_GroupsInInputOrder ==
    /\ [](pc # "review" =>
            \A n \in 1..Len(similar_groups) : C12_InInputOrder(similar_groups[n][2]))
    /\ [][C12_Step]_vars

\* A group of three was returned whose representative comes after a path
\* that was visited first and left without a group.
C12_Witness ==
    /\ pc = "done"
    /\ \E n \in 1..Len(similar_groups) :
          /\ Len(similar_groups[n][2]) >= 3
          /\ \E q \in Keys(hash_dict) \ processed : q < similar_groups[n][2][1]

====
